---- MODULE Spec2Model ----
(***************************************************************************)
(* A model of main.py: the FastAPI relay between a chat frontend and an    *)
(* OpenAI-compatible completions server, with its tool catalog, the direct *)
(* tool-execution endpoint and the health check.                           *)
(*                                                                         *)
(* Each inbound request runs as one asyncio task.  chat() has a single     *)
(* await point (client.post), so it is two atomic steps, ChatStart and     *)
(* ChatResume; health() and execute_tool() have none and are one step.     *)
(* Python values are tagged records; a text that the code slices or        *)
(* iterates is a sequence of one-character strings, a text that the code   *)
(* only copies is a TLA+ string.                                           *)
(***************************************************************************)
EXTENDS Integers, Sequences, FiniteSets, TLC

VARIABLES
    tasks,            \* task id -> the request it serves and how far it got
    TOOLS,            \* main.py:46  the tool catalog (a module global)
    TOOL_FUNCTIONS,   \* main.py:88  the implementation table (a module global)
    DEFAULT_MODEL,    \* main.py:28
    LLM_SERVER_URL,   \* main.py:27
    py312             \* whether the interpreter is Python 3.12 or later

vars == <<tasks, TOOLS, TOOL_FUNCTIONS, DEFAULT_MODEL, LLM_SERVER_URL, py312>>
globals == <<TOOLS, TOOL_FUNCTIONS, DEFAULT_MODEL, LLM_SERVER_URL, py312>>

-----------------------------------------------------------------------------
(* Bounds of the model *)

MaxTasks == 2          \* tasks that may be in flight together
MaxMsgs == 2           \* longest message list of a chat request
MaxExprLen == 4        \* longest calculator expression enumerated in full

(* Program constants *)

LOG_PREFIX == 100      \* assistant_message[:100]
MAX_TOKENS == 512
TIMEOUT == 30
TEMPERATURE == [num |-> 7, den |-> 10]     \* 0.7

-----------------------------------------------------------------------------
(* Python values *)

PyNone == [t |-> "None"]
PyStr(s) == [t |-> "str", s |-> s]
PyInt(n) == [t |-> "int", n |-> n]
PyBool(b) == [t |-> "bool", b |-> b]
PyList(a) == [t |-> "list", a |-> a]
PyDict(o) == [t |-> "dict", o |-> o]

EmptyDict == PyDict(<<>>)

(* The outcome of evaluating something that may raise *)
Ok(v) == [ok |-> TRUE, v |-> v]
Raise(cls, msg) == [ok |-> FALSE, cls |-> cls, msg |-> msg]

TypeName(v) ==
    CASE v.t = "None" -> "NoneType"
      [] v.t = "str" -> "str"
      [] v.t = "int" -> "int"
      [] v.t = "float" -> "float"
      [] v.t = "bool" -> "bool"
      [] v.t = "list" -> "list"
      [] v.t = "dict" -> "dict"
      [] v.t = "tuple" -> "tuple"
      [] v.t = "complex" -> "complex"
      [] OTHER -> "ellipsis"

(* Exception classes: the subclasses of httpx.HTTPError, and those of       *)
(* Exception.  CancelledError and the like derive from BaseException only.  *)
HTTPErrorClasses == {"HTTPStatusError", "ConnectError", "ReadTimeout"}
ExceptionClasses ==
    HTTPErrorClasses \cup
    {"KeyError", "IndexError", "TypeError", "JSONDecodeError", "ValidationError",
     "SyntaxError", "ZeroDivisionError", "ValueError"}

(* v[key] for a string key *)
PyGetKey(v, key) ==
    CASE v.t = "dict" ->
            IF key \in DOMAIN v.o THEN Ok(v.o[key]) ELSE Raise("KeyError", key)
      [] v.t = "list" ->
            Raise("TypeError", "list indices must be integers or slices, not str")
      [] v.t = "str" ->
            Raise("TypeError", "string indices must be integers")
      [] OTHER -> Raise("TypeError", TypeName(v) \o " object is not subscriptable")

(* v[i] for a non-negative integer i (Python counts from 0) *)
PyGetIndex(v, i) ==
    CASE v.t = "dict" -> Raise("KeyError", "0")
      [] v.t = "list" ->
            IF i + 1 \in DOMAIN v.a THEN Ok(v.a[i + 1])
            ELSE Raise("IndexError", "list index out of range")
      [] v.t = "str" ->
            IF i + 1 \in DOMAIN v.s THEN Ok(PyStr(<<v.s[i + 1]>>))
            ELSE Raise("IndexError", "string index out of range")
      [] OTHER -> Raise("TypeError", TypeName(v) \o " object is not subscriptable")

Prefix(s, n) == SubSeq(s, 1, IF Len(s) < n THEN Len(s) ELSE n)

(* v[:n].  A dict raises TypeError (unhashable slice) before Python 3.12    *)
(* and KeyError from 3.12 on, where slices hash.                            *)
PySlice(v, n, sliceHashable) ==
    CASE v.t = "str" -> Ok(PyStr(Prefix(v.s, n)))
      [] v.t = "list" -> Ok(PyList(Prefix(v.a, n)))
      [] v.t = "dict" ->
            IF sliceHashable THEN Raise("KeyError", "slice(None, 100, None)")
            ELSE Raise("TypeError", "unhashable type: 'slice'")
      [] OTHER -> Raise("TypeError", TypeName(v) \o " object is not subscriptable")

-----------------------------------------------------------------------------
(* The tool catalog and the configuration, as main.py sets them at import *)

DatetimeSchema ==
    [name |-> "get_current_datetime",
     description |-> "Returns the current date and time in ISO 8601 format",
     parameters |-> [type |-> "object", properties |-> <<>>, required |-> <<>>]]

CalculatorSchema ==
    [name |-> "calculator",
     description |-> "Calculate mathematical expressions safely",
     parameters |->
        [type |-> "object",
         properties |->
            [expression |->
                [type |-> "string",
                 description |-> "Mathematical expression to evaluate"]],
         required |-> <<"expression">>]]

InitialTools == <<DatetimeSchema, CalculatorSchema>>
InitialToolFunctions ==
    [get_current_datetime |-> "get_current_datetime", calculator |-> "calculator"]
InitialModel == "gemma3-27b"
InitialUrl == "http://localhost:8001/v1/chat/completions"

-----------------------------------------------------------------------------
(* Tasks *)

TaskIds == 1 .. MaxTasks

IdleTask ==
    [pc |-> "idle", kind |-> "none", req |-> PyNone, calls |-> <<>>,
     outcome |-> PyNone, logged |-> PyNone, ret |-> PyNone, trace |-> <<>>,
     resp |-> PyNone]

Idle(t) == tasks[t].pc = "idle"
Awaiting(t) == tasks[t].pc = "awaiting"
Done(t) == tasks[t].pc = "done"

Init ==
    /\ tasks = [t \in TaskIds |-> IdleTask]
    /\ TOOLS = InitialTools
    /\ TOOL_FUNCTIONS = InitialToolFunctions
    /\ DEFAULT_MODEL = InitialModel
    /\ LLM_SERVER_URL = InitialUrl
    /\ py312 \in BOOLEAN

-----------------------------------------------------------------------------
(* The downstream server, seen from the client *)

HttpResponse(status, json) == [kind |-> "response", status |-> status, json |-> json]
ConnectFailure == [kind |-> "connect_error"]
TimedOut == [kind |-> "timeout"]
NotJson == [t |-> "notjson"]

(* await client.post(...): the response, or the transport's exception *)
client_post(outcome) ==
    CASE outcome.kind = "connect_error" ->
            Raise("ConnectError", "All connection attempts failed")
      [] outcome.kind = "timeout" -> Raise("ReadTimeout", "")
      [] OTHER -> Ok(outcome)

(* As raise_for_status, but raising for 4xx and 5xx only *)
raise_for_status_errors_only(response) ==
    IF response.status < 400 THEN Ok(response)
    ELSE Raise("HTTPStatusError", "status " \o ToString(response.status))

(* response.raise_for_status(): raises unless the status is 2xx *)
raise_for_status(response) ==
    IF response.status >= 200 /\ response.status <= 299 THEN Ok(response)
    ELSE Raise("HTTPStatusError", "status " \o ToString(response.status))

(* response.json() *)
response_json(response) ==
    IF response.json = NotJson
    THEN Raise("JSONDecodeError", "Expecting value: line 1 column 1 (char 0)")
    ELSE Ok(response.json)

(* call_llm_with_tools up to its await: the payload it posts *)
BuildPayload(messages, include_tools) ==
    LET base == [model |-> DEFAULT_MODEL, messages |-> messages,
                 temperature |-> TEMPERATURE, max_tokens |-> MAX_TOKENS]
    IN IF include_tools
       THEN [model |-> base.model, messages |-> base.messages,
             temperature |-> base.temperature, max_tokens |-> base.max_tokens,
             tools |-> TOOLS, tool_choice |-> "auto"]
       ELSE base

PostCall(messages, include_tools) ==
    [url |-> LLM_SERVER_URL, json |-> BuildPayload(messages, include_tools),
     timeout |-> TIMEOUT]

(* call_llm_with_tools from its await on *)
call_llm_result(outcome) ==
    LET posted == client_post(outcome)
    IN IF ~posted.ok THEN posted
       ELSE LET checked == raise_for_status(posted.v)
            IN IF ~checked.ok THEN checked ELSE response_json(checked.v)

-----------------------------------------------------------------------------
(* chat() *)

(* As ConvertMessages, but in reverse order *)
ConvertMessagesReversed(msgs) ==
    [i \in 1 .. Len(msgs) |->
        [role |-> msgs[Len(msgs) + 1 - i].role,
         content |-> msgs[Len(msgs) + 1 - i].content]]

(* [{"role": msg.role, "content": msg.content} for msg in request.messages] *)
ConvertMessages(msgs) ==
    [i \in 1 .. Len(msgs) |-> [role |-> msgs[i].role, content |-> msgs[i].content]]

(* As ExtractContent, but reading the last choice: ["choices"][-1] *)
ExtractContentLast(llm_response) ==
    LET a == PyGetKey(llm_response, "choices")
    IN IF ~a.ok THEN a
       ELSE LET b == PyGetIndex(a.v, IF a.v.t = "list" /\ Len(a.v.a) > 0
                                     THEN Len(a.v.a) - 1 ELSE 0)
            IN IF ~b.ok THEN b
               ELSE LET c == PyGetKey(b.v, "message")
                    IN IF ~c.ok THEN c ELSE PyGetKey(c.v, "content")

(* llm_response["choices"][0]["message"]["content"] *)
ExtractContent(llm_response) ==
    LET a == PyGetKey(llm_response, "choices")
    IN IF ~a.ok THEN a
       ELSE LET b == PyGetIndex(a.v, 0)
            IN IF ~b.ok THEN b
               ELSE LET c == PyGetKey(b.v, "message")
                    IN IF ~c.ok THEN c ELSE PyGetKey(c.v, "content")

DebugInfo == PyDict([model |-> DEFAULT_MODEL, tools_available |-> Len(TOOLS)])

UserIdDebug == PyStr(<<"d", "e", "b", "u", "g">>)

(* As WantsDebug, but for any user id given: if request.userId *)
WantsDebugAnyUser(request) ==
    request.userId # PyNone /\ request.userId # PyStr(<<>>)

(* request.userId == "debug" *)
WantsDebug(request) == request.userId = UserIdDebug

(* As ChatResponse, but a plain dict, which validates nothing *)
ChatResponseUnvalidated(message, toolsUsed, debug) ==
    Ok([message |-> message, toolsUsed |-> toolsUsed, debug |-> debug])

(* ChatResponse(message=..., toolsUsed=None, debug=...): message must be a str *)
ChatResponse(message, toolsUsed, debug) ==
    IF message.t = "str"
    THEN Ok([message |-> message, toolsUsed |-> toolsUsed, debug |-> debug])
    ELSE Raise("ValidationError", "message: Input should be a valid string")

(* The try block of chat() after the await: the body returned, its log     *)
(* line, or the exception raised.                                          *)
ChatBody(request, outcome, sliceHashable) ==
    LET llm == call_llm_result(outcome)
    IN IF ~llm.ok THEN [res |-> llm, logged |-> PyNone]
       ELSE LET content == ExtractContent(llm.v)
            IN IF ~content.ok THEN [res |-> content, logged |-> PyNone]
               ELSE LET shown == PySlice(content.v, LOG_PREFIX, sliceHashable)
                    IN IF ~shown.ok THEN [res |-> shown, logged |-> PyNone]
                       ELSE [res |-> ChatResponse(
                                        content.v, PyNone,
                                        IF WantsDebug(request)
                                        THEN DebugInfo ELSE PyNone),
                             logged |-> shown.v]

(* An exception no handler catches: the server answers 500 itself *)
Unhandled(cls) ==
    [status |-> 500, detail |-> <<"Internal Server Error">>, unhandled |-> cls]

(* The except clauses of chat() *)
ChatHandle(res) ==
    IF res.ok THEN [status |-> 200, body |-> res.v]
    ELSE IF res.cls \in HTTPErrorClasses
         THEN [status |-> 500, detail |-> <<"LLM server error: ", res.msg>>]
         ELSE IF res.cls \in ExceptionClasses
              THEN [status |-> 500, detail |-> <<res.msg>>]
              ELSE Unhandled(res.cls)

ChatStart(t, request) ==
    /\ Idle(t)
    /\ tasks' = [tasks EXCEPT ![t] =
            [IdleTask EXCEPT
                !.pc = "awaiting", !.kind = "chat", !.req = request,
                !.calls = <<PostCall(ConvertMessages(request.messages), TRUE)>>]]
    /\ UNCHANGED globals

(* As ChatResume, but posting once more when a call fails *)
ChatResumeRetry(t, outcome) ==
    /\ Awaiting(t)
    /\ IF ~call_llm_result(outcome).ok /\ Len(tasks[t].calls) < 2
       THEN tasks' = [tasks EXCEPT ![t].calls = Append(@, @[1])]
       ELSE tasks' = [tasks EXCEPT ![t] =
                [@ EXCEPT !.pc = "done", !.outcome = outcome,
                          !.logged = ChatBody(tasks[t].req, outcome, py312).logged,
                          !.resp = ChatHandle(ChatBody(tasks[t].req, outcome, py312).res)]]
    /\ UNCHANGED globals

ChatResume(t, outcome) ==
    /\ Awaiting(t)
    /\ LET done == ChatBody(tasks[t].req, outcome, py312)
       IN tasks' = [tasks EXCEPT ![t] =
            [@ EXCEPT !.pc = "done", !.outcome = outcome,
                      !.logged = done.logged, !.resp = ChatHandle(done.res)]]
    /\ UNCHANGED globals

-----------------------------------------------------------------------------
(* health() *)

(* As Health, but registering a tool in the catalog on the way *)
HealthRegisters(t) ==
    /\ Idle(t)
    /\ tasks' = [tasks EXCEPT ![t] =
            [IdleTask EXCEPT
                !.pc = "done", !.kind = "health",
                !.resp = [status |-> 200,
                          body |-> [status |-> "healthy", model |-> DEFAULT_MODEL,
                                    tools |-> Len(TOOLS)]]]]
    /\ TOOLS' = IF Len(TOOLS) < 3 THEN Append(TOOLS, TOOLS[1]) ELSE TOOLS
    /\ UNCHANGED <<TOOL_FUNCTIONS, DEFAULT_MODEL, LLM_SERVER_URL, py312>>

Health(t) ==
    /\ Idle(t)
    /\ tasks' = [tasks EXCEPT ![t] =
            [IdleTask EXCEPT
                !.pc = "done", !.kind = "health",
                !.resp = [status |-> 200,
                          body |-> [status |-> "healthy", model |-> DEFAULT_MODEL,
                                    tools |-> Len(TOOLS)]]]]
    /\ UNCHANGED globals

(* The client has its response; the task ends *)
Deliver(t) ==
    /\ Done(t)
    /\ tasks' = [tasks EXCEPT ![t] = IdleTask]
    /\ UNCHANGED globals

-----------------------------------------------------------------------------
(* Numbers as eval() computes them.  An int is exact.  A float is the      *)
(* rational p/q in lowest terms (q > 0); q = 0 marks a float whose value   *)
(* the model does not track (a fractional power).  Rounding is not         *)
(* modelled.  Without a comma every tuple is the empty tuple.              *)

PyFloatRaw(p, q) == [t |-> "float", p |-> p, q |-> q]
Untracked == PyFloatRaw(0, 0)
PyTuple == [t |-> "tuple"]
PyEllipsis == [t |-> "ellipsis"]
PyComplex == [t |-> "complex"]
PyText(m) == [t |-> "str", text |-> m]

Abs(n) == IF n < 0 THEN -n ELSE n

RECURSIVE Gcd(_, _)
Gcd(a, b) == IF b = 0 THEN a ELSE Gcd(b, a % b)

PyFloat(p, q) ==
    LET g == Gcd(Abs(p), Abs(q))
        sgn == IF q < 0 THEN -1 ELSE 1
    IN PyFloatRaw(sgn * (p \div g), sgn * (q \div g))

RECURSIVE IntPow(_, _)
IntPow(b, e) == IF e = 0 THEN 1 ELSE b * IntPow(b, e - 1)

(* floor(n / d), d # 0 *)
FloorDiv(n, d) == IF d > 0 THEN n \div d ELSE (-n) \div (-d)

IsReal(v) == v.t \in {"int", "float"}
IsNumber(v) == v.t \in {"int", "float", "complex"}
Tracked(v) == v.t = "int" \/ (v.t = "float" /\ v.q # 0)
NumOf(v) == IF v.t = "int" THEN v.n ELSE v.p
DenOf(v) == IF v.t = "int" THEN 1 ELSE v.q
IsZero(v) == Tracked(v) /\ NumOf(v) = 0

(* The int or float n/d, by the operands' types *)
MakeReal(a, b, n, d) ==
    IF a.t = "int" /\ b.t = "int" THEN PyInt(n \div d) ELSE PyFloat(n, d)

Unsupported(op, a, b) ==
    Raise("TypeError",
          "unsupported operand type(s) for " \o op \o ": '" \o TypeName(a)
              \o "' and '" \o TypeName(b) \o "'")

Power(a, b) ==
    IF a.t = "complex" \/ b.t = "complex" THEN Ok(PyComplex)
    ELSE IF ~Tracked(a) \/ ~Tracked(b) THEN Ok(Untracked)
    ELSE LET p == NumOf(a)
             q == DenOf(a)
             e == NumOf(b)
             f == DenOf(b)
         IN IF f = 1
            THEN IF e >= 0
                 THEN Ok(MakeReal(a, b, IntPow(p, e), IntPow(q, e)))
                 ELSE IF p = 0
                      THEN Raise("ZeroDivisionError",
                                 "0.0 cannot be raised to a negative power")
                      ELSE Ok(PyFloat(IntPow(q, -e), IntPow(p, -e)))
            ELSE IF p = 0
                 THEN IF e > 0 THEN Ok(PyFloat(0, 1))
                      ELSE Raise("ZeroDivisionError",
                                 "0.0 cannot be raised to a negative power")
                 ELSE IF p = q THEN Ok(PyFloat(1, 1))
                 ELSE IF p > 0 THEN Ok(Untracked)
                 ELSE Ok(PyComplex)

(* a op b for two values *)
Arith(op, a, b) ==
    IF op = "+" /\ a.t = "tuple" /\ b.t = "tuple" THEN Ok(PyTuple)
    ELSE IF op = "*" /\ ((a.t = "tuple" /\ b.t = "int") \/ (a.t = "int" /\ b.t = "tuple"))
    THEN Ok(PyTuple)
    ELSE IF ~(IsNumber(a) /\ IsNumber(b)) THEN Unsupported(op, a, b)
    ELSE IF op \in {"/", "//", "%"} /\ IsZero(b)
    THEN Raise("ZeroDivisionError", "division by zero")
    ELSE IF op = "**" THEN Power(a, b)
    ELSE IF a.t = "complex" \/ b.t = "complex"
    THEN IF op \in {"//", "%"} THEN Unsupported(op, a, b) ELSE Ok(PyComplex)
    ELSE IF ~Tracked(a) \/ ~Tracked(b) THEN Ok(Untracked)
    ELSE LET p == NumOf(a)
             q == DenOf(a)
             r == NumOf(b)
             s == DenOf(b)
             fl == FloorDiv(p * s, q * r)
         IN CASE op = "+" -> Ok(MakeReal(a, b, p * s + r * q, q * s))
              [] op = "-" -> Ok(MakeReal(a, b, p * s - r * q, q * s))
              [] op = "*" -> Ok(MakeReal(a, b, p * r, q * s))
              [] op = "/" -> Ok(PyFloat(p * s, q * r))
              [] op = "//" -> Ok(MakeReal(a, b, fl, 1))
              [] OTHER -> Ok(MakeReal(a, b, p * s - fl * r * q, q * s))

(* Operands are evaluated left to right; the first exception wins *)
BinOp(op, l, r) ==
    IF ~l.ok THEN l ELSE IF ~r.ok THEN r ELSE Arith(op, l.v, r.v)

UnaryOp(op, x) ==
    IF ~x.ok THEN x
    ELSE IF ~IsNumber(x.v)
    THEN Raise("TypeError",
               "bad operand type for unary " \o op \o ": '" \o TypeName(x.v) \o "'")
    ELSE IF op = "+" \/ x.v.t = "complex" \/ ~Tracked(x.v) THEN x
    ELSE IF x.v.t = "int" THEN Ok(PyInt(-x.v.n))
    ELSE Ok(PyFloat(-x.v.p, x.v.q))

(* callee(arg): nothing an allowed-character expression denotes is callable *)
CallOp(callee, arg) ==
    IF ~callee.ok THEN callee
    ELSE IF ~arg.ok THEN arg
    ELSE Raise("TypeError", "'" \o TypeName(callee.v) \o "' object is not callable")

-----------------------------------------------------------------------------
(* eval(): Python's tokenizer and expression grammar over the characters   *)
(* the calculator lets through                                             *)

Digits == {"0", "1", "2", "3", "4", "5", "6", "7", "8", "9"}
DigitVal(c) ==
    CASE c = "0" -> 0 [] c = "1" -> 1 [] c = "2" -> 2 [] c = "3" -> 3 [] c = "4" -> 4
      [] c = "5" -> 5 [] c = "6" -> 6 [] c = "7" -> 7 [] c = "8" -> 8 [] OTHER -> 9

At(s, i) == IF i \in DOMAIN s THEN s[i] ELSE "<end>"

(* The first position from i on that holds no digit *)
RECURSIVE DigitsEnd(_, _)
DigitsEnd(s, i) == IF At(s, i) \in Digits THEN DigitsEnd(s, i + 1) ELSE i

(* The decimal value of s[i .. j-1] *)
RECURSIVE Decimal(_, _, _)
Decimal(s, i, j) ==
    IF j <= i THEN 0 ELSE 10 * Decimal(s, i, j - 1) + DigitVal(s[j - 1])

Op(o) == [k |-> "op", s |-> o]
Number(v) == [k |-> "num", v |-> v]
SyntaxFail == Raise("SyntaxError", "invalid syntax")

RECURSIVE Tokenize(_, _, _)
Tokenize(s, i, acc) ==
    LET c == At(s, i)
        j == DigitsEnd(s, i)
        k == DigitsEnd(s, j + 1)
    IN IF i > Len(s) THEN Ok(acc)
       ELSE IF c = " " THEN Tokenize(s, i + 1, acc)
       ELSE IF c \in Digits \/ (c = "." /\ At(s, i + 1) \in Digits)
       THEN IF At(s, j) = "."
            THEN Tokenize(s, k,
                    Append(acc, Number(PyFloat(
                        Decimal(s, i, j) * IntPow(10, k - j - 1) + Decimal(s, j + 1, k),
                        IntPow(10, k - j - 1)))))
            ELSE IF j - i > 1 /\ s[i] = "0" /\ Decimal(s, i, j) # 0
                 THEN Raise("SyntaxError",
                            "leading zeros in decimal integer literals are not permitted")
                 ELSE Tokenize(s, j, Append(acc, Number(PyInt(Decimal(s, i, j)))))
       ELSE IF c = "." /\ At(s, i + 1) = "." /\ At(s, i + 2) = "."
       THEN Tokenize(s, i + 3, Append(acc, Op("...")))
       ELSE IF c = "*" /\ At(s, i + 1) = "*" THEN Tokenize(s, i + 2, Append(acc, Op("**")))
       ELSE IF c = "/" /\ At(s, i + 1) = "/" THEN Tokenize(s, i + 2, Append(acc, Op("//")))
       ELSE IF c \in {"+", "-", "*", "/", "%", "(", ")"}
       THEN Tokenize(s, i + 1, Append(acc, Op(c)))
       ELSE SyntaxFail

IsOp(toks, pos, ops) ==
    pos \in DOMAIN toks /\ toks[pos].k = "op" /\ toks[pos].s \in ops

(* A parse: whether the text up to pos is well formed, and what it is worth *)
Parsed(val, pos) == [ok |-> TRUE, val |-> val, pos |-> pos]
NoParse == [ok |-> FALSE]

(* Python's expression grammar, one rule per case; left is the value of   *)
(* what the rule continues (the callee of a call, the left operand).      *)
(*   sum:      term (('+' | '-') term)*                                   *)
(*   term:     factor (('*' | '/' | '//' | '%') factor)*                  *)
(*   factor:   ('+' | '-') factor | power                                 *)
(*   power:    primary ['**' factor]                                      *)
(*   primary:  atom ( '(' [ ['*' | '**'] sum ] ')' )*                     *)
(*   atom:     NUMBER | '...' | '(' ')' | '(' sum ')'                     *)
RECURSIVE Parse(_, _, _, _)
Parse(rule, toks, pos, left) ==
    CASE rule = "atom" ->
            IF pos \notin DOMAIN toks THEN NoParse
            ELSE IF toks[pos].k = "num" THEN Parsed(Ok(toks[pos].v), pos + 1)
            ELSE IF IsOp(toks, pos, {"..."}) THEN Parsed(Ok(PyEllipsis), pos + 1)
            ELSE IF IsOp(toks, pos, {"("})
            THEN IF IsOp(toks, pos + 1, {")"}) THEN Parsed(Ok(PyTuple), pos + 2)
                 ELSE LET inner == Parse("sum", toks, pos + 1, left)
                      IN IF inner.ok /\ IsOp(toks, inner.pos, {")"})
                         THEN Parsed(inner.val, inner.pos + 1)
                         ELSE NoParse
            ELSE NoParse
      [] rule = "trailers" ->
            IF ~IsOp(toks, pos, {"("}) THEN Parsed(left, pos)
            ELSE IF IsOp(toks, pos + 1, {")"})
            THEN Parse("trailers", toks, pos + 2, CallOp(left, Ok(PyNone)))
            ELSE LET from == IF IsOp(toks, pos + 1, {"*", "**"}) THEN pos + 2
                             ELSE pos + 1
                     arg == Parse("sum", toks, from, left)
                 IN IF arg.ok /\ IsOp(toks, arg.pos, {")"})
                    THEN Parse("trailers", toks, arg.pos + 1, CallOp(left, arg.val))
                    ELSE NoParse
      [] rule = "power" ->
            LET atom == Parse("atom", toks, pos, left)
                base == IF atom.ok THEN Parse("trailers", toks, atom.pos, atom.val)
                        ELSE NoParse
                exp == Parse("factor", toks, base.pos + 1, left)
            IN IF ~base.ok THEN NoParse
               ELSE IF IsOp(toks, base.pos, {"**"})
               THEN IF exp.ok THEN Parsed(BinOp("**", base.val, exp.val), exp.pos)
                    ELSE NoParse
               ELSE base
      [] rule = "factor" ->
            IF IsOp(toks, pos, {"+", "-"})
            THEN LET f == Parse("factor", toks, pos + 1, left)
                 IN IF f.ok THEN Parsed(UnaryOp(toks[pos].s, f.val), f.pos)
                    ELSE NoParse
            ELSE Parse("power", toks, pos, left)
      [] rule = "term" ->
            LET f == Parse("factor", toks, pos, left)
            IN IF f.ok THEN Parse("term_rest", toks, f.pos, f.val) ELSE NoParse
      [] rule = "term_rest" ->
            IF IsOp(toks, pos, {"*", "/", "//", "%"})
            THEN LET r == Parse("factor", toks, pos + 1, left)
                 IN IF r.ok
                    THEN Parse("term_rest", toks, r.pos, BinOp(toks[pos].s, left, r.val))
                    ELSE NoParse
            ELSE Parsed(left, pos)
      [] rule = "sum" ->
            LET f == Parse("term", toks, pos, left)
            IN IF f.ok THEN Parse("sum_rest", toks, f.pos, f.val) ELSE NoParse
      [] OTHER ->
            IF IsOp(toks, pos, {"+", "-"})
            THEN LET r == Parse("term", toks, pos + 1, left)
                 IN IF r.ok
                    THEN Parse("sum_rest", toks, r.pos, BinOp(toks[pos].s, left, r.val))
                    ELSE NoParse
            ELSE Parsed(left, pos)

(* eval(expression): the whole text is parsed before anything is computed *)
EvalTree(toks, tree) ==
    IF tree.ok /\ tree.pos = Len(toks) + 1 THEN tree.val ELSE SyntaxFail

EvalTokens(toks) ==
    IF ~toks.ok THEN toks
    ELSE EvalTree(toks.v, Parse("sum", toks.v, 1, Ok(PyNone)))

PyEval(expression) ==
    IF expression.t # "str" \/ "s" \notin DOMAIN expression
    THEN Raise("TypeError", "eval() arg 1 must be a string, bytes or code object")
    ELSE EvalTokens(Tokenize(expression.s, 1, <<>>))

-----------------------------------------------------------------------------
(* The tools *)

AllowedChars ==
    Digits \cup {"+", "-", "*", "/", "(", ")", "%", ".", " "}

RECURSIVE SetToSeq(_)
SetToSeq(S) ==
    IF S = {} THEN <<>>
    ELSE LET x == CHOOSE y \in S : TRUE IN <<x>> \o SetToSeq(S \ {x})

(* for c in expression: the items, or TypeError for what cannot be iterated *)
PyIter(v) ==
    CASE v.t = "str" -> Ok([i \in DOMAIN v.s |-> PyStr(<<v.s[i]>>)])
      [] v.t = "list" -> Ok(v.a)
      [] v.t = "dict" -> Ok([i \in 1 .. Cardinality(DOMAIN v.o) |->
                                PyText(SetToSeq(DOMAIN v.o)[i])])
      [] OTHER -> Raise("TypeError", "'" \o TypeName(v) \o "' object is not iterable")

(* c in allowed_chars, for a hashable c *)
InAllowed(c) ==
    /\ c.t = "str"
    /\ IF "s" \in DOMAIN c THEN Len(c.s) = 1 /\ c.s[1] \in AllowedChars
       ELSE c.text \in AllowedChars

(* all(c in allowed_chars for c in expression): stops at the first item    *)
(* that is not allowed; an unhashable item met before that raises.         *)
RECURSIVE AllAllowed(_, _)
AllAllowed(items, i) ==
    IF i > Len(items) THEN Ok(TRUE)
    ELSE IF items[i].t \in {"list", "dict"}
    THEN Raise("TypeError", "unhashable type: '" \o TypeName(items[i]) \o "'")
    ELSE IF ~InAllowed(items[i]) THEN Ok(FALSE)
    ELSE AllAllowed(items, i + 1)

(* As CalcCatch, but except ZeroDivisionError *)
CalcCatchArithmeticOnly(exc) ==
    IF exc.cls = "ZeroDivisionError" THEN Ok(PyDict([error |-> PyText(exc.msg)]))
    ELSE exc

(* except Exception as e: return {"error": str(e)} *)
CalcCatch(exc) ==
    IF exc.cls \in ExceptionClasses THEN Ok(PyDict([error |-> PyText(exc.msg)]))
    ELSE exc

(* all(c in allowed_chars for c in expression) *)
CalcFilterItems(items) == IF items.ok THEN AllAllowed(items.v, 1) ELSE items
CalcFilter(expression) == CalcFilterItems(PyIter(expression))

(* result = eval(expression); return {"result": result} *)
CalcResult(value) ==
    IF value.ok THEN Ok(PyDict([result |-> value.v])) ELSE CalcCatch(value)

CalcDecide(expression, allowed) ==
    IF ~allowed.ok THEN [res |-> CalcCatch(allowed), trace |-> <<"calculator">>]
    ELSE IF allowed.v
    THEN [res |-> CalcResult(PyEval(expression)), trace |-> <<"calculator", "eval">>]
    ELSE [res |-> Ok(PyDict([error |-> PyText("Invalid expression")])),
          trace |-> <<"calculator">>]

(* calculator(expression): what it returns or raises, and what it called *)
calculator(expression) == CalcDecide(expression, CalcFilter(expression))

(* get_current_datetime(), the clock reading now *)
get_current_datetime(now) ==
    [res |-> Ok(PyDict([datetime |-> PyText(now)])),
     trace |-> <<"get_current_datetime">>]

\* TOOL_FUNCTIONS[name] called with the parameters as keywords: they must
\* be the function's parameters, no fewer and no more.
BadCall(msg) == [res |-> Raise("TypeError", msg), trace |-> <<>>]

CallTool(fn, parameters, now) ==
    IF fn = "get_current_datetime"
    THEN IF DOMAIN parameters.o = {} THEN get_current_datetime(now)
         ELSE BadCall("get_current_datetime() got an unexpected keyword argument")
    ELSE IF "expression" \notin DOMAIN parameters.o
    THEN BadCall("calculator() missing 1 required positional argument: 'expression'")
    ELSE IF DOMAIN parameters.o # {"expression"}
    THEN BadCall("calculator() got an unexpected keyword argument")
    ELSE calculator(parameters.o["expression"])

(* The JSON rendering of a handler's return value: a tuple becomes a list; *)
(* an object that is neither a JSON type nor a mapping raises ValueError.  *)
RECURSIVE jsonable_encoder(_)
jsonable_encoder(v) ==
    CASE v.t \in {"ellipsis", "complex"} -> Raise("ValueError", "not JSON serializable")
      [] v.t = "tuple" -> Ok(PyList(<<>>))
      [] v.t = "list" ->
            IF \E i \in DOMAIN v.a : ~jsonable_encoder(v.a[i]).ok
            THEN Raise("ValueError", "not JSON serializable")
            ELSE Ok(PyList([i \in DOMAIN v.a |-> jsonable_encoder(v.a[i]).v]))
      [] v.t = "dict" ->
            IF \E k \in DOMAIN v.o : ~jsonable_encoder(v.o[k]).ok
            THEN Raise("ValueError", "not JSON serializable")
            ELSE Ok(PyDict([k \in DOMAIN v.o |-> jsonable_encoder(v.o[k]).v]))
      [] OTHER -> Ok(v)

(* @app.post(...): the handler's return value as the HTTP response *)
RespondEncoded(body) ==
    IF body.ok THEN [status |-> 200, body |-> body.v] ELSE Unhandled(body.cls)

Respond(returned) == RespondEncoded(jsonable_encoder(returned))

(* The try block of execute_tool and its except clause *)
ToolAnswer(name, call) ==
    [resp |-> IF call.res.ok
              THEN Respond(PyDict([tool |-> PyText(name), result |-> call.res.v]))
              ELSE IF call.res.cls \in ExceptionClasses
                   THEN [status |-> 400, detail |-> <<call.res.msg>>]
                   ELSE Unhandled(call.res.cls),
     ret |-> call.res, trace |-> call.trace]

(* execute_tool(name, parameters) *)
execute_tool(name, parameters, now) ==
    IF name \notin DOMAIN TOOL_FUNCTIONS
    THEN [resp |-> [status |-> 404, detail |-> <<"Tool ", name, " not found">>],
          ret |-> PyNone, trace |-> <<>>]
    ELSE ToolAnswer(name, CallTool(TOOL_FUNCTIONS[name], parameters, now))

ToolTask(name, parameters, done) ==
    [IdleTask EXCEPT
        !.pc = "done", !.kind = "tool",
        !.req = [name |-> name, parameters |-> parameters],
        !.ret = done.ret, !.trace = done.trace, !.resp = done.resp]

ExecuteTool(t, name, parameters, now) ==
    /\ Idle(t)
    /\ tasks' = [tasks EXCEPT ![t] =
                    ToolTask(name, parameters, execute_tool(name, parameters, now))]
    /\ UNCHANGED globals

-----------------------------------------------------------------------------
(* Inputs *)

Text(n, c) == [i \in 1 .. n |-> c]
ShortText == <<"h", "i">>
PaddedText == <<" ", "h", "i", " ">>
OtherText == <<"n", "o">>
LongText == Text(LOG_PREFIX + 1, "x")
ReplyTexts == {<<>>, ShortText, PaddedText, LongText}

Choice(content) == PyDict([message |-> PyDict([content |-> content])])
BodyWith(choices) == PyDict([choices |-> PyList(choices)])

GoodBodies ==
    {BodyWith(<<Choice(PyStr(s))>>) : s \in ReplyTexts}
    \cup {BodyWith(<<Choice(PyStr(ShortText)), Choice(PyStr(OtherText))>>),
          BodyWith(<<Choice(PyStr(LongText)), Choice(PyStr(ShortText))>>)}

BadContents ==
    {PyNone, PyInt(5), PyBool(TRUE), PyList(<<PyStr(ShortText)>>), PyList(<<>>),
     PyDict([text |-> PyStr(ShortText)])}

BadBodies ==
    {EmptyDict,
     BodyWith(<<>>),
     BodyWith(<<EmptyDict>>),
     BodyWith(<<PyDict([message |-> EmptyDict])>>),
     BodyWith(<<PyDict([message |-> PyNone])>>),
     BodyWith(<<PyNone, Choice(PyStr(ShortText))>>),
     PyDict([choices |-> PyNone]),
     PyDict([choices |-> PyStr(ShortText)]),
     PyDict([choices |-> PyDict([message |-> PyDict([content |-> PyStr(ShortText)])])]),
     PyList(<<>>),
     PyStr(ShortText),
     PyNone,
     NotJson}
    \cup {BodyWith(<<Choice(c)>>) : c \in BadContents}

Outcomes ==
    {HttpResponse(s, b) : s \in {200, 201}, b \in GoodBodies}
    \cup {HttpResponse(200, b) : b \in BadBodies}
    \cup {HttpResponse(s, b) : s \in {302, 404, 500},
                               b \in {BodyWith(<<Choice(PyStr(ShortText))>>), NotJson}}
    \cup {ConnectFailure, TimedOut}

MessagePool ==
    {[role |-> "user", content |-> "hello"],
     [role |-> "assistant", content |-> "hi there"],
     [role |-> "system", content |-> ""]}

RECURSIVE SeqsUpTo(_, _)
SeqsUpTo(S, n) ==
    IF n = 0 THEN {<<>>}
    ELSE LET shorter == SeqsUpTo(S, n - 1)
         IN shorter \cup {Append(s, x) : s \in {q \in shorter : Len(q) = n - 1}, x \in S}

UserIds ==
    {PyNone, UserIdDebug, PyStr(<<"D", "e", "b", "u", "g">>),
     PyStr(<<"d", "e", "b", "u", "g", " ">>), PyStr(<<"a", "l", "i", "c", "e">>)}

ChatRequests ==
    {[messages |-> m, conversationId |-> "c1", userId |-> u] :
        m \in SeqsUpTo(MessagePool, MaxMsgs), u \in UserIds}

ClockReadings == {"2026-01-01T09:00:00", "2026-01-01T09:00:01"}

ExprChars == {"0", "2", "-", "*", "/", "(", ")", ".", " ", "a"}

SpecExamples ==
    {<<"2", "+", "2">>,
     <<"1", "0", "/", "0">>,
     <<"i", "m", "p", "o", "r", "t", " ", "o", "s">>,
     <<"2", "+", "3", "*", "2">>,
     <<"(", "2", "+", "3", ")", "*", "2">>,
     <<"7", "-", "2", "-", "1">>,
     <<"7", "%", "3">>,
     <<"1", ".", "5", "+", "1", ".", "5">>,
     <<"2", "*", "*", "3">>,
     <<"7", "/", "/", "2">>,
     <<"(", "-", "8", ")", "*", "*", ".", "5">>}

Expressions == SeqsUpTo(ExprChars, MaxExprLen) \cup SpecExamples

OddExpressions ==
    {PyNone, PyInt(5), PyBool(TRUE), PyList(<<>>), PyList(<<PyStr(<<"2">>)>>),
     PyList(<<PyStr(<<"a">>), PyList(<<>>)>>), PyList(<<PyList(<<>>)>>),
     EmptyDict, PyDict([a |-> PyInt(1)])}

SmallParameters ==
    {EmptyDict,
     PyDict([expression |-> PyStr(<<"2", "+", "2">>)]),
     PyDict([expression |-> PyStr(<<"2", "/", "0">>)]),
     PyDict([expression |-> PyStr(<<"o", "s">>)]),
     PyDict([expr |-> PyStr(<<"2">>)]),
     PyDict([expression |-> PyStr(<<"2">>), extra |-> PyInt(1)])}

ToolNames == {"calculator", "get_current_datetime", "nonexistent", "Calculator", ""}

ToolRequests ==
    {[name |-> "calculator", parameters |-> PyDict([expression |-> PyStr(e)])] :
        e \in Expressions}
    \cup {[name |-> "calculator", parameters |-> PyDict([expression |-> v])] :
            v \in OddExpressions}
    \cup {[name |-> n, parameters |-> p] : n \in ToolNames, p \in SmallParameters}

-----------------------------------------------------------------------------
(* One chat request at a time, over every request and every outcome *)

NextChat ==
    \/ Idle(1) /\ \E r \in ChatRequests : ChatStart(1, r)
    \/ Awaiting(1) /\ \E o \in Outcomes : ChatResume(1, o)
    \/ Deliver(1)

SpecChat == Init /\ [][NextChat]_vars

(* One tool execution at a time, over every tool request *)

NextTool ==
    \/ Idle(1) /\ \E r \in ToolRequests, now \in ClockReadings :
                    ExecuteTool(1, r.name, r.parameters, now)
    \/ Deliver(1)

SpecTool == Init /\ [][NextTool]_vars

-----------------------------------------------------------------------------
(* The server: up to MaxTasks requests in flight, interleaved at will *)

SampleMessages ==
    <<[role |-> "user", content |-> "hello"],
      [role |-> "assistant", content |-> "hi there"]>>

SampleChatRequests ==
    {[messages |-> <<>>, conversationId |-> "c1", userId |-> PyNone],
     [messages |-> SampleMessages, conversationId |-> "c1", userId |-> PyNone],
     [messages |-> SampleMessages, conversationId |-> "c1", userId |-> UserIdDebug],
     [messages |-> SampleMessages, conversationId |-> "c1",
      userId |-> PyStr(<<"D", "e", "b", "u", "g">>)]}

SampleOutcomes ==
    {HttpResponse(200, BodyWith(<<Choice(PyStr(ShortText))>>)),
     HttpResponse(200, BodyWith(<<Choice(PyStr(LongText)), Choice(PyStr(ShortText))>>)),
     HttpResponse(200, BodyWith(<<>>)),
     HttpResponse(200, BodyWith(<<Choice(PyDict([text |-> PyStr(ShortText)]))>>)),
     HttpResponse(200, NotJson),
     HttpResponse(500, NotJson),
     ConnectFailure,
     TimedOut}

SampleToolRequests ==
    {[name |-> n, parameters |-> p] :
        n \in {"calculator", "get_current_datetime", "nonexistent"},
        p \in {EmptyDict, PyDict([expression |-> PyStr(<<"2", "+", "2">>)])}}

Next ==
    \E t \in TaskIds :
        \/ Idle(t) /\ \E r \in SampleChatRequests : ChatStart(t, r)
        \/ Awaiting(t) /\ \E o \in SampleOutcomes : ChatResume(t, o)
        \/ Health(t)
        \/ Idle(t) /\ \E r \in SampleToolRequests, now \in ClockReadings :
                        ExecuteTool(t, r.name, r.parameters, now)
        \/ Deliver(t)

Spec == Init /\ [][Next]_vars

-----------------------------------------------------------------------------
(* Properties *)

ChatDone(t) == tasks[t].kind = "chat" /\ Done(t)
ToolDone(t) == tasks[t].kind = "tool" /\ Done(t)
Is2xx(o) == o.kind = "response" /\ o.status >= 200 /\ o.status <= 299

(* The body has a first choice whose message content is text *)
HasContentText(o) ==
    /\ Is2xx(o)
    /\ o.json.t = "dict" /\ "choices" \in DOMAIN o.json.o
    /\ o.json.o["choices"].t = "list" /\ Len(o.json.o["choices"].a) >= 1
    /\ o.json.o["choices"].a[1].t = "dict"
    /\ "message" \in DOMAIN o.json.o["choices"].a[1].o
    /\ o.json.o["choices"].a[1].o["message"].t = "dict"
    /\ "content" \in DOMAIN o.json.o["choices"].a[1].o["message"].o
    /\ o.json.o["choices"].a[1].o["message"].o["content"].t = "str"

FirstContent(o) == o.json.o["choices"].a[1].o["message"].o["content"]

(* C1: whenever the downstream call succeeds with a body whose             *)
(* choices[0].message.content is text, chat() answers 200 with exactly     *)
(* that text as message (not its logged prefix, not another choice) and    *)
(* no toolsUsed.                                                           *)
C1_ExactReply ==
    \A t \in TaskIds :
        ChatDone(t) /\ HasContentText(tasks[t].outcome) =>
            /\ tasks[t].resp.status = 200
            /\ tasks[t].resp.body.message = FirstContent(tasks[t].outcome)
            /\ tasks[t].resp.body.toolsUsed = PyNone

C1_Witness ==
    /\ ChatDone(1) /\ HasContentText(tasks[1].outcome)
    /\ Len(tasks[1].outcome.json.o["choices"].a) = 2
    /\ Len(FirstContent(tasks[1].outcome).s) > LOG_PREFIX
    /\ tasks[1].resp.status = 200
    /\ tasks[1].logged # tasks[1].resp.body.message

(* C2: a successful chat() response carries debug exactly when the userId  *)
(* is the string "debug"; debug is then {model, tools_available: 2}; and   *)
(* two requests that differ only in a userId that is not "debug" get the   *)
(* same response to the same downstream reply.                             *)
C2_DebugGate ==
    \A t \in TaskIds :
        ChatDone(t) /\ tasks[t].resp.status = 200 =>
            /\ tasks[t].resp.body.debug # PyNone <=> tasks[t].req.userId = UserIdDebug
            /\ tasks[t].resp.body.debug # PyNone =>
                    tasks[t].resp.body.debug =
                        PyDict([model |-> InitialModel, tools_available |-> 2])
            /\ \A u \in TaskIds :
                    /\ ChatDone(u)
                    /\ tasks[u].req.messages = tasks[t].req.messages
                    /\ tasks[u].req.conversationId = tasks[t].req.conversationId
                    /\ tasks[u].outcome = tasks[t].outcome
                    /\ tasks[u].req.userId # UserIdDebug
                    /\ tasks[t].req.userId # UserIdDebug
                    => tasks[u].resp = tasks[t].resp

C2_Witness ==
    \E t, u \in TaskIds :
        /\ ChatDone(t) /\ ChatDone(u)
        /\ tasks[t].resp.status = 200 /\ tasks[u].resp.status = 200
        /\ tasks[t].req.userId = UserIdDebug
        /\ tasks[t].resp.body.debug # PyNone
        /\ tasks[u].req.userId = PyStr(<<"D", "e", "b", "u", "g">>)
        /\ tasks[u].resp.body.debug = PyNone

(* C3: every payload chat() posts has the configured model, temperature    *)
(* 0.7, max_tokens 512, the whole catalog as tools, tool_choice "auto",    *)
(* and as messages the request's messages, one {role, content} each, in    *)
(* the request's order.                                                    *)
C3_Payload ==
    \A t \in TaskIds :
        tasks[t].kind = "chat" =>
            /\ Len(tasks[t].calls) >= 1
            /\ \A c \in DOMAIN tasks[t].calls :
                LET p == tasks[t].calls[c].json
                    m == tasks[t].req.messages
                IN /\ DOMAIN p = {"model", "messages", "temperature", "max_tokens",
                                  "tools", "tool_choice"}
                   /\ p.model = InitialModel
                   /\ p.temperature = [num |-> 7, den |-> 10]
                   /\ p.max_tokens = 512
                   /\ p.tools = InitialTools
                   /\ p.tool_choice = "auto"
                   /\ Len(p.messages) = Len(m)
                   /\ \A i \in DOMAIN m :
                        p.messages[i] = [role |-> m[i].role, content |-> m[i].content]

C3_Witness ==
    /\ tasks[1].kind = "chat" /\ Awaiting(1)
    /\ Len(tasks[1].req.messages) >= 2
    /\ tasks[1].req.messages[1] # tasks[1].req.messages[2]
    /\ Len(tasks[1].calls[1].json.messages) = Len(tasks[1].req.messages)

(* C4: a chat request makes exactly one downstream call, whatever comes of *)
(* it, and has no response before that call has completed or failed.       *)
C4_OneCall ==
    \A t \in TaskIds :
        tasks[t].kind = "chat" =>
            /\ Len(tasks[t].calls) = 1
            /\ Awaiting(t) => tasks[t].resp = PyNone /\ tasks[t].outcome = PyNone
            /\ Done(t) => tasks[t].resp # PyNone /\ tasks[t].outcome # PyNone

C4_Witness ==
    \E t, u \in TaskIds :
        /\ ChatDone(t) /\ tasks[t].outcome = TimedOut /\ Len(tasks[t].calls) = 1
        /\ tasks[u].kind = "chat" /\ Awaiting(u)

(* C5: when the downstream call fails at transport or HTTP level (a status *)
(* outside 2xx, a connection failure, a timeout), chat() answers 500 with  *)
(* a detail of "LLM server error: " and the error's text, and no message.  *)
TransportFailure(o) == o.kind \in {"connect_error", "timeout"} \/ ~Is2xx(o)

C5_DownstreamUnavailable ==
    \A t \in TaskIds :
        ChatDone(t) /\ TransportFailure(tasks[t].outcome) =>
            /\ tasks[t].resp.status = 500
            /\ DOMAIN tasks[t].resp = {"status", "detail"}
            /\ tasks[t].resp.detail =
                    <<"LLM server error: ", call_llm_result(tasks[t].outcome).msg>>

C5_Witness ==
    /\ ChatDone(1)
    /\ tasks[1].outcome.kind = "response" /\ tasks[1].outcome.status = 500
    /\ tasks[1].resp.status = 500

(* C6: chat() always answers, with 200 or 500, a text message on 200 and a *)
(* textual detail on 500, never an unhandled fault; a 2xx downstream body  *)
(* without a first choice holding message content as text yields 500.      *)
C6_Total ==
    \A t \in TaskIds :
        ChatDone(t) =>
            /\ tasks[t].resp # PyNone
            /\ tasks[t].resp.status \in {200, 500}
            /\ "unhandled" \notin DOMAIN tasks[t].resp
            /\ tasks[t].resp.status = 200 => tasks[t].resp.body.message.t = "str"
            /\ tasks[t].resp.status = 500 => Len(tasks[t].resp.detail) >= 1
            /\ Is2xx(tasks[t].outcome) /\ ~HasContentText(tasks[t].outcome)
                    => tasks[t].resp.status = 500

C6_Witness ==
    /\ ChatDone(1) /\ Is2xx(tasks[1].outcome)
    /\ tasks[1].outcome.json = BodyWith(<<Choice(PyList(<<PyStr(ShortText)>>))>>)
    /\ tasks[1].resp.status = 500

CatalogNames == {TOOLS[i].name : i \in DOMAIN TOOLS}

(* C7: execute_tool answers 404, running no tool, when the name is not in  *)
(* the catalog; else 400 when invoking the tool raises; else 200 with      *)
(* {tool: name, result}; and it never calls the downstream server.         *)
C7_Classification ==
    \A t \in TaskIds :
        ToolDone(t) =>
            /\ tasks[t].calls = <<>>
            /\ IF tasks[t].req.name \notin CatalogNames
               THEN tasks[t].resp.status = 404 /\ tasks[t].trace = <<>>
               ELSE IF ~tasks[t].ret.ok
               THEN tasks[t].resp.status = 400
               ELSE /\ tasks[t].resp.status = 200
                    /\ DOMAIN tasks[t].resp.body.o = {"tool", "result"}
                    /\ tasks[t].resp.body.o["tool"] = PyText(tasks[t].req.name)

IsCalculation(t) ==
    /\ ToolDone(t) /\ tasks[t].req.name = "calculator"
    /\ DOMAIN tasks[t].req.parameters.o = {"expression"}

Expression(t) == tasks[t].req.parameters.o["expression"]
IsText(v) == v.t = "str" /\ "s" \in DOMAIN v
PassesFilter(s) == \A i \in DOMAIN s : s[i] \in AllowedChars
Called(t, fn) == \E i \in DOMAIN tasks[t].trace : tasks[t].trace[i] = fn

(* C8: calculator always returns and never raises; an expression with a    *)
(* character outside the allowed set gives {error: "Invalid expression"}   *)
(* and is not evaluated; one that passes the filter and fails to evaluate  *)
(* gives {error: <description>}; an error value reaches the client as a    *)
(* 200 result, not as a 400.                                               *)
C8_CalculatorTotal ==
    \A t \in TaskIds :
        IsCalculation(t) =>
            /\ tasks[t].ret.ok
            /\ tasks[t].ret.v.t = "dict"
            /\ DOMAIN tasks[t].ret.v.o \in {{"result"}, {"error"}}
            /\ IsText(Expression(t)) /\ ~PassesFilter(Expression(t).s) =>
                    /\ tasks[t].ret.v = PyDict([error |-> PyText("Invalid expression")])
                    /\ ~Called(t, "eval")
            /\ IsText(Expression(t)) /\ PassesFilter(Expression(t).s)
                    /\ ~PyEval(Expression(t)).ok =>
                    tasks[t].ret.v =
                        PyDict([error |-> PyText(PyEval(Expression(t)).msg)])
            /\ "error" \in DOMAIN tasks[t].ret.v.o =>
                    /\ tasks[t].resp.status = 200
                    /\ tasks[t].resp.body.o["result"] = tasks[t].ret.v

C8_Witness ==
    /\ IsCalculation(1) /\ IsText(Expression(1)) /\ PassesFilter(Expression(1).s)
    /\ ~PyEval(Expression(1)).ok /\ PyEval(Expression(1)).cls = "ZeroDivisionError"
    /\ tasks[1].ret.ok /\ "error" \in DOMAIN tasks[1].ret.v.o
    /\ tasks[1].resp.status = 200

(* Tokens of arithmetic over + - * / %, parentheses and decimal numbers,   *)
(* with no empty parentheses.                                              *)
StandardTokens(toks) ==
    /\ \A i \in DOMAIN toks :
            toks[i].k = "op" => toks[i].s \in {"+", "-", "*", "/", "%", "(", ")"}
    /\ \A i \in DOMAIN toks :
            ~(IsOp(toks, i, {"("}) /\ IsOp(toks, i + 1, {")"}))

(* C9: for an expression that passes the filter, calculator returns        *)
(* {result: v} only when the expression is standard arithmetic over        *)
(* + - * / %, parentheses and decimal numbers, v being a number.           *)
C9_StandardArithmeticOnly ==
    \A t \in TaskIds :
        /\ IsCalculation(t) /\ IsText(Expression(t)) /\ PassesFilter(Expression(t).s)
        /\ tasks[t].ret.ok /\ "result" \in DOMAIN tasks[t].ret.v.o
        => /\ StandardTokens(Tokenize(Expression(t).s, 1, <<>>).v)
           /\ tasks[t].ret.v.o["result"].t \in {"int", "float"}

(* C10: no handler changes the catalog, the implementation table or the    *)
(* configuration; the catalog's names are unique and are the keys of the   *)
(* implementation table; health() always answers {healthy, model, 2}; and  *)
(* two requests with the same input and the same downstream reply get the  *)
(* same response, whatever else is in flight.                              *)
C10_NoSharedState ==
    /\ TOOLS = InitialTools
    /\ TOOL_FUNCTIONS = InitialToolFunctions
    /\ DEFAULT_MODEL = InitialModel
    /\ LLM_SERVER_URL = InitialUrl
    /\ Cardinality(CatalogNames) = Len(TOOLS)
    /\ CatalogNames = DOMAIN TOOL_FUNCTIONS
    /\ \A t \in TaskIds :
            tasks[t].kind = "health" =>
                tasks[t].resp =
                    [status |-> 200,
                     body |-> [status |-> "healthy", model |-> InitialModel, tools |-> 2]]
    /\ \A t, u \in TaskIds :
            /\ Done(t) /\ Done(u) /\ tasks[t].kind = tasks[u].kind
            /\ tasks[t].kind = "chat" \/ (tasks[t].kind = "tool"
                                          /\ tasks[t].req.name # "get_current_datetime")
            /\ tasks[t].req = tasks[u].req /\ tasks[t].outcome = tasks[u].outcome
            => tasks[t].resp = tasks[u].resp

C10_Witness ==
    \E t, u \in TaskIds :
        /\ tasks[t].kind = "health" /\ Done(t)
        /\ ChatDone(u) /\ tasks[u].resp.status = 200

====
